---- MODULE Spec2Model ----
(***************************************************************************)
(* ProFAB feature extraction module: utils.py and feature_extracter.py.    *)
(* Strings are tuples of characters, so that split, strip and replace are   *)
(* computed character by character as Python computes them.                *)
(***************************************************************************)
EXTENDS Integers, Sequences, FiniteSets, Bags, TLC

VARIABLES
    pc,                 \* position of the running call
    error,              \* the exception that ended the call, or "none"
    method,             \* "POSSUM": extract_POSSUM_feature, "iFeature": extract_iFeature_feature
    protein_feature,    \* self.protein_feature
    place_protein_id,   \* self.place_protein_id
    fasta_lines,        \* contents of {input_folder}/{fasta_file_name}.fasta
    fasta_dict,         \* result of read_fasta_to_dict (insertion-ordered dict)
    platform,           \* platform.platform()
    set_proteins_fasta, \* first argument of find_pssm_missing_proteins
    pssm_files,         \* file names in {path_to_folder}/pssm_files
    pssm_entry,         \* pssm_files as it was when copy_form_pssm_matrices was entered
    single_entry,       \* single_fastas as it was then
    single_fastas,      \* file names in temp_folder/single_fastas (empty when absent)
    temp_output,        \* temp_folder/temp_output_folder: descriptor -> raw lines
    output_files,       \* feature_extraction_output/{ip}: descriptor -> lines
    unflushed,          \* descriptor -> text buffered in an output file object left open
    list_proteins_no_pssm1, \* missing identifiers before the remote fetch
    list_proteins_no_pssm2, \* missing identifiers after the remote fetch
    todo,               \* what the running for loop has still to visit
    prot_feat,          \* loop variable of `for prot_feat in list_desc`
    log,                \* bag of the external effects of the call
    result              \* the value returned

vars == <<pc, error, method, protein_feature, place_protein_id, fasta_lines,
          fasta_dict, platform, set_proteins_fasta, pssm_files, pssm_entry,
          single_entry, single_fastas, temp_output, output_files, unflushed,
          list_proteins_no_pssm1, list_proteins_no_pssm2, todo, prot_feat, log, result>>

fsVars == <<pssm_files, single_fastas, temp_output, output_files, unflushed>>

----------------------------------------------------------------------------
(* Bounds *)

MaxLines == 5

----------------------------------------------------------------------------
(* Python str operations on tuples of characters *)

\* the characters str.strip() removes (those c with c.isspace()); a character
\* that cannot be written in a string here is named by its code point
Whitespace ==
    {"\t", "\n", "U+000B", "\f", "\r", "U+001C", "U+001D", "U+001E", "U+001F", " ",
     "U+0085", "U+00A0", "U+1680", "U+2000", "U+2001", "U+2002", "U+2003",
     "U+2004", "U+2005", "U+2006", "U+2007", "U+2008", "U+2009", "U+200A",
     "U+2028", "U+2029", "U+202F", "U+205F", "U+3000"}

RECURSIVE LStrip(_)
LStrip(s) ==
    IF s /= <<>> /\ Head(s) \in Whitespace THEN LStrip(Tail(s)) ELSE s

RECURSIVE RStrip(_)
RStrip(s) ==
    IF s /= <<>> /\ s[Len(s)] \in Whitespace
    THEN RStrip(SubSeq(s, 1, Len(s) - 1)) ELSE s

\* str.strip()
Strip(s) == RStrip(LStrip(s))

\* str.split(c): the fields between the occurrences of c, never empty
RECURSIVE SplitAcc(_, _, _, _)
SplitAcc(s, c, cur, acc) ==
    IF s = <<>> THEN Append(acc, cur)
    ELSE IF Head(s) = c THEN SplitAcc(Tail(s), c, <<>>, Append(acc, cur))
    ELSE SplitAcc(Tail(s), c, Append(cur, Head(s)), acc)

Split(s, c) == SplitAcc(s, c, <<>>, <<>>)

\* str.replace(a, b) for one-character a and b
Replace(s, a, b) == [i \in 1..Len(s) |-> IF s[i] = a THEN b ELSE s[i]]

----------------------------------------------------------------------------
(* dict: a sequence of [k, v] records in insertion order *)

Keys(d) == [i \in 1..Len(d) |-> d[i].k]

KeySet(d) == {d[i].k : i \in 1..Len(d)}

HasKey(d, key) == key \in KeySet(d)

\* d[key] = val: an existing key keeps its position
DictSet(d, key, val) ==
    IF HasKey(d, key)
    THEN [i \in 1..Len(d) |-> IF d[i].k = key THEN [k |-> key, v |-> val] ELSE d[i]]
    ELSE Append(d, [k |-> key, v |-> val])

----------------------------------------------------------------------------
(* utils.read_fasta_to_dict *)

\* the locals before the first line is read
FastaStart == [d |-> <<>>, sequence |-> <<>>, prot_id |-> <<>>, err |-> "none"]

\* the body with `sequence = ""` left out for a new identifier
FastaLineNoReset(st, line, place) ==
    IF st.err /= "none" THEN st
    ELSE IF line[1] = ">" THEN
        LET d1 == IF st.prot_id /= <<>>
                  THEN DictSet(st.d, st.prot_id, st.sequence) ELSE st.d
            fields == Split(Strip(line), "|")
        IN  IF place + 1 > Len(fields) THEN [st EXCEPT !.err = "IndexError"]
            ELSE
              LET f == fields[place + 1]
                  pid == IF place = 0 THEN SubSeq(f, 2, Len(f)) ELSE f
              IN  [d |-> IF HasKey(d1, pid) THEN d1 ELSE DictSet(d1, pid, <<>>),
                   sequence |-> st.sequence, prot_id |-> pid, err |-> "none"]
    ELSE [st EXCEPT !.sequence = st.sequence \o Strip(line)]

\* the body of `for line in fp` on one line
FastaLine(st, line, place) ==
    IF st.err /= "none" THEN st
    ELSE IF line[1] = ">" THEN
        LET d1 == IF st.prot_id /= <<>>
                  THEN DictSet(st.d, st.prot_id, st.sequence) ELSE st.d
            fields == Split(Strip(line), "|")
        IN  IF place + 1 > Len(fields) THEN [st EXCEPT !.err = "IndexError"]
            ELSE
              LET f == fields[place + 1]
                  pid == IF place = 0 THEN SubSeq(f, 2, Len(f)) ELSE f
              IN  IF ~HasKey(d1, pid)
                  THEN [d |-> DictSet(d1, pid, <<>>), sequence |-> <<>>,
                        prot_id |-> pid, err |-> "none"]
                  ELSE [d |-> d1, sequence |-> st.sequence,
                        prot_id |-> pid, err |-> "none"]
    ELSE [st EXCEPT !.sequence = st.sequence \o Strip(line)]

RECURSIVE FastaLoop(_, _, _)
FastaLoop(st, lines, place) ==
    IF lines = <<>> THEN st
    ELSE FastaLoop(FastaLine(st, Head(lines), place), Tail(lines), place)

\* [d |-> the dict returned, err |-> the exception raised or "none"]
read_fasta_to_dict(lines, place) ==
    LET st == FastaLoop(FastaStart, lines, place)
    IN  IF st.err /= "none" THEN [d |-> <<>>, err |-> st.err]
        ELSE [d |-> DictSet(st.d, st.prot_id, st.sequence), err |-> "none"]

----------------------------------------------------------------------------
(* FASTA inputs *)

NL == <<"\n">>

FastaLineSet ==
    { <<">", "a", "|", "b">> \o NL,
      <<">", "b", "|", "a">> \o NL,
      <<">", "a">> \o NL,
      <<">", "|", "b">> \o NL,
      <<"X">> \o NL,
      <<" ", "Y", "\f">> \o NL,
      <<"U+00A0", "Z">> \o NL,
      NL }

RECURSIVE SeqsUpTo(_, _)
SeqsUpTo(S, n) ==
    IF n = 0 THEN {<<>>}
    ELSE LET shorter == SeqsUpTo(S, n - 1)
         IN  shorter \cup {Append(s, x) : s \in {t \in shorter : Len(t) = n - 1}, x \in S}

FastaFiles == SeqsUpTo(FastaLineSet, MaxLines) \ {<<>>}

----------------------------------------------------------------------------
(* Identifiers and file names.  A run of letters that holds no separator   *)
(* ('.', '|', ',', white space) may stand as one element of a tuple.        *)

IdA == <<"a">>
IdB == <<"b">>
IdAB == <<"a", ".", "b">>
IdC == <<"c">>

IdSet == {IdA, IdB, IdAB}

\* '{}.pssm'.format(prot_id)
PssmName(prot_id) == prot_id \o <<".", "pssm">>

\* '{}.fasta'.format(prot_id)
FastaName(prot_id) == prot_id \o <<".", "fasta">>

\* one record of a FASTA file whose header names prot_id in both fields
FastaRecord(prot_id) ==
    << <<">">> \o prot_id \o <<"|">> \o prot_id \o NL, <<"S">> \o prot_id \o NL >>

RECURSIVE FastaOfIds(_)
FastaOfIds(ids) ==
    IF ids = <<>> THEN <<>> ELSE FastaRecord(Head(ids)) \o FastaOfIds(Tail(ids))

----------------------------------------------------------------------------
(* utils.find_pssm_missing_proteins *)

\* file.rsplit(".", 1)[0]: only the last extension is cut off
FileProteinIdLastDot(file) ==
    LET f == Split(file, ".")
        RECURSIVE Join(_)
        Join(fs) == IF Len(fs) = 1 THEN fs[1] ELSE fs[1] \o <<".">> \o Join(Tail(fs))
    IN  IF Len(f) = 1 THEN f[1] ELSE Join(SubSeq(f, 1, Len(f) - 1))

\* file.split(".")[0]
FileProteinId(file) == Split(file, ".")[1]

\* the file names are compared with the identifiers as they are
find_pssm_missing_unsplit(ids, dir) == ids \ dir

\* the loop over os.listdir(pssm_dir), then the set difference; the list
\* returned has no defined order and is kept as a set
find_pssm_missing_proteins(ids, dir) ==
    LET set_proteins_pssm == {FileProteinId(file) : file \in dir}
    IN  ids \ set_proteins_pssm

----------------------------------------------------------------------------
(* The effects a call has on the outside world *)

Ev(op, arg) == [op |-> op, arg |-> arg]

Logged(e) == log (+) SetToBag({e})

Count(e) == CopiesIn(e, log)

EventsOf(op) == {e \in BagToSet(log) : e.op = op}

----------------------------------------------------------------------------
(* feature_extracter.__init__ *)

POSSUM_desc_list ==
    {"aac_pssm", "d_fpssm", "smoothed_pssm", "ab_pssm", "pssm_composition",
     "rpm_pssm", "s_fpssm", "dpc_pssm", "k_separated_bigrams_pssm", "eedp",
     "tpc", "edp", "rpssm", "pse_pssm", "dp_pssm", "pssm_ac", "pssm_cc",
     "aadp_pssm", "aatp", "medp", "tri_gram_pssm", "all_POSSUM"}

iFeature_desc_list ==
    {"AAC", "PAAC", "APAAC", "DPC", "GAAC", "CKSAAP", "CKSAAGP", "GDPC",
     "Moran", "Geary", "NMBroto", "CTDC", "CTDD", "CTDT", "CTriad",
     "KSCTriad", "SOCNumber", "QSOrder", "all_iFeature"}

----------------------------------------------------------------------------
(* feature_extracter.extract_POSSUM_feature, lines 101-102 *)

\* fasta_dict = read_fasta_to_dict(...)
ReadFasta ==
    /\ pc = "entry"
    /\ method = "POSSUM"
    /\ LET r == read_fasta_to_dict(fasta_lines, place_protein_id)
       IN  /\ fasta_dict' = r.d
           /\ error' = r.err
           /\ pc' = IF r.err = "none" THEN "copy_form" ELSE "raised"
    /\ UNCHANGED <<method, protein_feature, place_protein_id, fasta_lines, platform,
                   set_proteins_fasta, pssm_entry, single_entry, fsVars, list_proteins_no_pssm1,
                   list_proteins_no_pssm2, todo, prot_feat, log, result>>

----------------------------------------------------------------------------
(* utils.copy_form_pssm_matrices and the functions it calls *)

\* lines 99-102: the first missing list, and whether copy_pssms is called
CopyFormEnter ==
    /\ pc = "copy_form"
    /\ pssm_entry' = pssm_files
    /\ single_entry' = single_fastas
    /\ set_proteins_fasta' = KeySet(fasta_dict)
    /\ list_proteins_no_pssm1' = find_pssm_missing_proteins(KeySet(fasta_dict), pssm_files)
    /\ todo' = list_proteins_no_pssm1'
    /\ pc' = IF list_proteins_no_pssm1' /= {} THEN "copy_pssms" ELSE "recheck"
    /\ UNCHANGED <<error, method, protein_feature, place_protein_id, fasta_lines,
                   fasta_dict, platform, fsVars, list_proteins_no_pssm2, prot_feat,
                   log, result>>

\* copy_pssms: one pass of `for prot_id in fasta_dict`; requests.get answers
\* with a body ("ok"), an HTTP error status, or raises ConnectionError
CopyPssmsStep ==
    /\ pc = "copy_pssms"
    /\ todo /= {}
    /\ \E prot_id \in todo, answer \in {"ok", "http_error", "conn_error"} :
         /\ log' = Logged(Ev("http_get", <<prot_id, answer>>))
         /\ todo' = todo \ {prot_id}
         /\ pssm_files' = IF answer = "ok" THEN pssm_files \cup {PssmName(prot_id)}
                          ELSE pssm_files
         /\ error' = IF answer = "conn_error" THEN "ConnectionError" ELSE error
         /\ pc' = IF answer = "conn_error" THEN "raised" ELSE pc
    /\ UNCHANGED <<method, protein_feature, place_protein_id, fasta_lines, fasta_dict,
                   platform, set_proteins_fasta, pssm_entry, single_entry, single_fastas, temp_output,
                   output_files, unflushed, list_proteins_no_pssm1, list_proteins_no_pssm2,
                   prot_feat, result>>

CopyPssmsDone ==
    /\ pc = "copy_pssms"
    /\ todo = {}
    /\ pc' = "recheck"
    /\ UNCHANGED <<error, method, protein_feature, place_protein_id, fasta_lines,
                   fasta_dict, platform, set_proteins_fasta, pssm_entry, single_entry, fsVars,
                   list_proteins_no_pssm1, list_proteins_no_pssm2, todo, prot_feat,
                   log, result>>

\* the files are written for the first missing list, not the one passed
form_single_fasta_first_list(list_proteins_no_pssm) ==
    single_fastas \cup {FastaName(prot_id) : prot_id \in list_proteins_no_pssm1}

\* form_single_fasta_files: one file per identifier of the list, in the
\* directory as it is found (created when absent)
form_single_fasta_files(list_proteins_no_pssm) ==
    single_fastas \cup {FastaName(prot_id) : prot_id \in list_proteins_no_pssm}

\* lines 103-105, and os.listdir(path_single_fastas) of form_missing_pssm_files
Recheck ==
    /\ pc = "recheck"
    /\ list_proteins_no_pssm2' = find_pssm_missing_proteins(KeySet(fasta_dict), pssm_files)
    /\ IF list_proteins_no_pssm2' /= {}
       THEN /\ single_fastas' = form_single_fasta_files(list_proteins_no_pssm2')
            /\ log' = Logged(Ev("write_fastas", list_proteins_no_pssm2'))
            /\ todo' = single_fastas'
            /\ pc' = "form_missing"
       ELSE /\ UNCHANGED <<single_fastas, log>>
            /\ todo' = {}
            /\ pc' = "acquired"
    /\ UNCHANGED <<error, method, protein_feature, place_protein_id, fasta_lines,
                   fasta_dict, platform, set_proteins_fasta, pssm_files, pssm_entry, single_entry,
                   temp_output, output_files, unflushed, list_proteins_no_pssm1, prot_feat, result>>

\* whether form_missing_pssm_files runs a psiblast binary on this platform
RunsPsiblast(p) == p \in {"Linux", "Darwin"}

\* form_missing_pssm_files: one pass of `for filename in os.listdir(...)`;
\* psiblast writes the matrix it was told to write, or finds nothing
FormMissingStep ==
    /\ pc = "form_missing"
    /\ todo /= {}
    /\ \E filename \in todo :
         LET prot_id == Strip(Split(filename, ".")[1])
             pssmfile == PssmName(prot_id)
         IN  /\ todo' = todo \ {filename}
             /\ IF RunsPsiblast(platform)
                THEN /\ log' = Logged(Ev("psiblast", filename))
                     /\ \E wrote \in BOOLEAN :
                          pssm_files' = IF wrote THEN pssm_files \cup {pssmfile}
                                        ELSE pssm_files
                ELSE UNCHANGED <<log, pssm_files>>
    /\ UNCHANGED <<pc, error, method, protein_feature, place_protein_id, fasta_lines,
                   fasta_dict, platform, set_proteins_fasta, pssm_entry, single_entry, single_fastas,
                   temp_output, output_files, unflushed, list_proteins_no_pssm1,
                   list_proteins_no_pssm2, prot_feat, result>>

\* lines 76-79: shutil.rmtree removes the files one by one and stops at the
\* first it cannot remove; the OSError is printed and swallowed, and the
\* files not yet removed stay
FormMissingRmtree ==
    /\ pc = "form_missing"
    /\ todo = {}
    /\ \E left \in SUBSET single_fastas : single_fastas' = left
    /\ pc' = "acquired"
    /\ UNCHANGED <<error, method, protein_feature, place_protein_id, fasta_lines,
                   fasta_dict, platform, set_proteins_fasta, pssm_files, pssm_entry, single_entry,
                   temp_output, output_files, unflushed, list_proteins_no_pssm1,
                   list_proteins_no_pssm2, todo, prot_feat, log, result>>

----------------------------------------------------------------------------
(* The external descriptor tools, as far as the call can observe them *)

Digit == <<"1", "2", "3", "4", "5">>

\* raw output of possum.py: k comma-separated lines, the i-th one for the
\* i-th protein of the FASTA file
PossumRaw(k) == [i \in 1..k |-> <<Digit[i], ",", "0">> \o NL]

\* what possum.py may leave at temp_output_file for a FASTA of n proteins
PossumRaws(n) == {PossumRaw(k) : k \in 0..n}

\* one element that stands for a feature value of 5000 characters
LongRun == "F x5000"

\* one element that stands for a feature value of 4100 times the letter
\* U+00E9, which takes two bytes each in the file
LongRunAccented == "U+00E9 x4100"

\* what iFeature.py may leave at temp_output_file
IFeatureRaws ==
    { << <<"#", "\t", "f1">> \o NL, <<"sp", "|", "a", "\t", "1", "\t", "2">> \o NL >>,
      << <<"#", "\t", "f1">> \o NL, <<"a", "\t", "1">> \o NL >>,
      << <<"sp", "|", "a", "\t", "1">> \o NL, <<"b", "\t", "2">> \o NL,
         <<"sp", "|", "c", "\t", "3">> \o NL >>,
      << <<"sp", "|", "a", "\t", LongRun>> \o NL, <<"sp", "|", "a", "\t", LongRun>> \o NL,
         <<"b", "\t", "2">> \o NL >>,
      << <<"sp", "|", "a", "\t", LongRunAccented>> \o NL, <<"b", "\t", "2">> \o NL >>,
      << <<"#", "\t", "f1">> \o NL >> }

\* file[desc] = lines
Written(files, desc, lines) == (desc :> lines) @@ files

\* os.remove(file[desc])
Removed(files, desc) == [d \in DOMAIN files \ {desc} |-> files[d]]

----------------------------------------------------------------------------
(* utils.edit_extracted_features_POSSUM *)

Min(a, b) == IF a < b THEN a ELSE b

\* the lines written by `for line, prot_id in zip(fp, fasta_dict)`
PossumLines(raw, d) ==
    [i \in 1..Min(Len(raw), Len(d)) |->
        d[i].k \o <<"\t">> \o Replace(Strip(raw[i]), ",", "\t") \o NL]

\* the raw file is left behind
KeepRaw(files, desc) == files

\* os.remove(temp_output_file) at the end of the normalizer
RemoveRaw(files, desc) == Removed(files, desc)

edit_extracted_features_POSSUM ==
    /\ pc = "edit"
    /\ method = "POSSUM"
    /\ log' = Logged(Ev("normalize", prot_feat))
    /\ IF prot_feat \notin DOMAIN temp_output
       THEN /\ error' = "FileNotFoundError"
            /\ pc' = "raised"
            /\ UNCHANGED <<temp_output, output_files>>
       ELSE /\ output_files' = Written(output_files, prot_feat,
                                       PossumLines(temp_output[prot_feat], fasta_dict))
            /\ temp_output' = RemoveRaw(temp_output, prot_feat)
            /\ pc' = "return"
            /\ UNCHANGED error
    /\ UNCHANGED <<method, protein_feature, place_protein_id, fasta_lines, fasta_dict,
                   platform, set_proteins_fasta, pssm_files, pssm_entry, single_entry, single_fastas,
                   unflushed, list_proteins_no_pssm1, list_proteins_no_pssm2, todo,
                   prot_feat, result>>

----------------------------------------------------------------------------
(* utils.edit_extracted_features_iFeature *)

\* characters that take two and three bytes in the encoding of the file
\* (open(output_file, 'w') encodes with the locale's encoding, UTF-8)
TwoByteChars == {"U+0085", "U+00A0", "U+00E9"}
ThreeByteChars == Whitespace \ ({"\t", "\n", "U+000B", "\f", "\r", "U+001C", "U+001D",
                                 "U+001E", "U+001F", " "} \cup TwoByteChars)

\* number of bytes an element of a tuple takes once encoded
ByteCount(c) ==
    CASE c = LongRun -> 5000
      [] c = LongRunAccented -> 8200
      [] c \in {"sp", "f1"} -> 2
      [] c \in TwoByteChars -> 2
      [] c \in ThreeByteChars -> 3
      [] OTHER -> 1

RECURSIVE Size(_)
\* len(str.encode()): the text file object counts its pending text in bytes
Size(str) == IF str = <<>> THEN 0 ELSE ByteCount(Head(str)) + Size(Tail(str))

RECURSIVE Flat(_)
\* the strings of a sequence, one after the other
Flat(strs) == IF strs = <<>> THEN <<>> ELSE Head(strs) \o Flat(Tail(strs))

RECURSIVE LinesAcc(_, _, _)
LinesAcc(str, cur, acc) ==
    IF str = <<>> THEN (IF cur = <<>> THEN acc ELSE Append(acc, cur))
    ELSE IF Head(str) = "\n" THEN LinesAcc(Tail(str), <<>>, Append(acc, Append(cur, "\n")))
    ELSE LinesAcc(Tail(str), Append(cur, Head(str)), acc)

\* the lines of a file that holds str; the last one may be cut off
LinesOf(str) == LinesAcc(str, <<>>, <<>>)

RECURSIVE TabbedWrites(_)
\* fw.write('\t{}'.format(feature)) for each feature: one string per call
TabbedWrites(features) ==
    IF features = <<>> THEN <<>>
    ELSE << <<"\t">> \o Head(features) >> \o TabbedWrites(Tail(features))

\* the body of `for line in fp` on one line; out holds the argument of every
\* fw.write so far
IFeatureLine(st, line, place) ==
    IF st.err /= "none" \/ line[1] = "#" THEN st
    ELSE LET line_split == Split(Strip(line), "\t")
             id_fields == Split(line_split[1], "|")
         IN  IF place + 1 > Len(id_fields) THEN [st EXCEPT !.err = "IndexError"]
             ELSE [st EXCEPT !.out = st.out \o <<id_fields[place + 1]>>
                                        \o TabbedWrites(Tail(line_split)) \o <<NL>>]

RECURSIVE IFeatureLoop(_, _, _)
IFeatureLoop(st, lines, place) ==
    IF lines = <<>> THEN st
    ELSE IFeatureLoop(IFeatureLine(st, Head(lines), place), Tail(lines), place)

\* the text file object of open(output_file, 'w') keeps what is written until
\* about this many bytes of encoded text are pending
TextChunkSize == 8192

\* the sizes the byte buffer under the text file object can have: the block
\* size of the file system (4096 on ext4 and tmpfs), io.DEFAULT_BUFFER_SIZE
\* where the block size is unknown, or the larger buffer of later Python
\* releases
BufferSizes == {4096, 8192, 131072}

\* The text file object hands its pending bytes (the encoded text of the
\* writes up to number k) to the byte buffer of size bufsize.  The buffer keeps
\* them if they fit; otherwise what it held goes to the file, and the new bytes
\* follow at once when they are more than the buffer can hold.
\* st: pend    bytes pending in the text file object
\*     handed  number of writes handed to the byte buffer so far
\*     buf     bytes held in the byte buffer
\*     disk    number of writes that have reached the file
HandOn(st, k, bufsize) ==
    IF st.pend = 0 THEN st
    ELSE IF st.buf + st.pend <= bufsize
         THEN [st EXCEPT !.buf = @ + st.pend, !.handed = k, !.pend = 0]
    ELSE IF st.pend > bufsize
         THEN [pend |-> 0, handed |-> k, buf |-> 0, disk |-> k]
    ELSE [pend |-> 0, handed |-> k, buf |-> st.pend, disk |-> st.handed]

\* fw.write of the i-th string, of n bytes once encoded: pending bytes are
\* handed on first when the new ones would take them over the chunk size,
\* and again after the write when the chunk size is reached
TextWrite(st, i, n, bufsize) ==
    LET st1 == IF st.pend + n > TextChunkSize THEN HandOn(st, i - 1, bufsize) ELSE st
        st2 == [st1 EXCEPT !.pend = @ + n]
    IN  IF st2.pend >= TextChunkSize THEN HandOn(st2, i, bufsize) ELSE st2

RECURSIVE TextWrites(_, _, _, _)
TextWrites(st, writes, i, bufsize) ==
    IF i > Len(writes) THEN st
    ELSE TextWrites(TextWrite(st, i, Size(writes[i]), bufsize), writes, i + 1, bufsize)

\* how many of the writes have reached the file while fw is still open
ReachedFile(writes, bufsize) ==
    TextWrites([pend |-> 0, handed |-> 0, buf |-> 0, disk |-> 0], writes, 1, bufsize).disk

edit_extracted_features_iFeature ==
    /\ pc = "edit"
    /\ method = "iFeature"
    /\ log' = Logged(Ev("normalize", prot_feat))
    /\ IF prot_feat \notin DOMAIN temp_output
       THEN /\ error' = "FileNotFoundError"
            /\ pc' = "raised"
            /\ UNCHANGED <<temp_output, output_files, unflushed>>
       ELSE LET st == IFeatureLoop([out |-> <<>>, err |-> "none"],
                                   temp_output[prot_feat], place_protein_id)
            IN  IF st.err = "none"
                THEN \* fw.close() writes everything out, then os.remove
                     /\ output_files' = Written(output_files, prot_feat,
                                                LinesOf(Flat(st.out)))
                     /\ temp_output' = RemoveRaw(temp_output, prot_feat)
                     /\ pc' = "return"
                     /\ UNCHANGED <<error, unflushed>>
                ELSE \* open(output_file, 'w') has emptied the file; fw.close()
                     \* is skipped: the file holds the writes that were handed
                     \* on, the rest is in the buffers of fw
                     /\ \E bufsize \in BufferSizes :
                        LET k == ReachedFile(st.out, bufsize) IN
                          /\ output_files' = Written(output_files, prot_feat,
                                 LinesOf(Flat(SubSeq(st.out, 1, k))))
                          /\ unflushed' = Written(unflushed, prot_feat,
                                 Flat(SubSeq(st.out, k + 1, Len(st.out))))
                     /\ error' = st.err
                     /\ pc' = "raised"
                     /\ UNCHANGED temp_output
    /\ UNCHANGED <<method, protein_feature, place_protein_id, fasta_lines, fasta_dict,
                   platform, set_proteins_fasta, pssm_files, pssm_entry, single_entry, single_fastas,
                   list_proteins_no_pssm1, list_proteins_no_pssm2, todo, prot_feat,
                   result>>

\* the file object fw that a raising normalizer left open is finalized once
\* the caller has dropped the exception: what its buffers hold is appended
\* to the file.  It may never happen (the process can end first), so nothing
\* forces this step.
FinalizeLeaked ==
    /\ pc = "raised"
    /\ \E desc \in DOMAIN unflushed :
         /\ output_files' = Written(output_files, desc,
                                    LinesOf(Flat(output_files[desc]) \o unflushed[desc]))
         /\ unflushed' = Removed(unflushed, desc)
    /\ UNCHANGED <<pc, error, method, protein_feature, place_protein_id, fasta_lines,
                   fasta_dict, platform, set_proteins_fasta, pssm_files, pssm_entry,
                   single_entry, single_fastas, temp_output, list_proteins_no_pssm1,
                   list_proteins_no_pssm2, todo, prot_feat, log, result>>

----------------------------------------------------------------------------
(* feature_extracter.extract_POSSUM_feature / extract_iFeature_feature *)

\* lines 104-108 and 139-143
ListDesc(family_list, alias) ==
    IF protein_feature = alias THEN family_list \ {alias} ELSE {protein_feature}

POSSUMListDesc ==
    /\ pc = "acquired"
    /\ method = "POSSUM"
    /\ todo' = ListDesc(POSSUM_desc_list, "all_POSSUM")
    /\ pc' = "for_desc"
    /\ UNCHANGED <<error, method, protein_feature, place_protein_id, fasta_lines,
                   fasta_dict, platform, set_proteins_fasta, pssm_entry, single_entry, fsVars,
                   list_proteins_no_pssm1, list_proteins_no_pssm2, prot_feat, log,
                   result>>

iFeatureListDesc ==
    /\ pc = "entry"
    /\ method = "iFeature"
    /\ todo' = ListDesc(iFeature_desc_list, "all_iFeature")
    /\ pc' = "for_desc"
    /\ UNCHANGED <<error, method, protein_feature, place_protein_id, fasta_lines,
                   fasta_dict, platform, set_proteins_fasta, pssm_entry, single_entry, fsVars,
                   list_proteins_no_pssm1, list_proteins_no_pssm2, prot_feat, log,
                   result>>

\* the raw files the tool of the method may write
ToolRaws == IF method = "POSSUM" THEN PossumRaws(Len(fasta_dict)) ELSE IFeatureRaws

\* the next pass of `for prot_feat in list_desc` up to os.system(...): the
\* tool exits with some code, having written a raw file or not; the exit
\* code is not read
RunTool ==
    /\ pc = "for_desc"
    /\ todo /= {}
    /\ \E desc \in todo, exit_code \in {0, 1} :
         /\ prot_feat' = desc
         /\ todo' = todo \ {desc}
         /\ log' = Logged(Ev("tool", <<desc, exit_code>>))
         /\ \/ temp_output' = temp_output
            \/ \E raw \in ToolRaws : temp_output' = Written(temp_output, desc, raw)
    /\ pc' = "edit"
    /\ UNCHANGED <<error, method, protein_feature, place_protein_id, fasta_lines,
                   fasta_dict, platform, set_proteins_fasta, pssm_files, pssm_entry, single_entry,
                   single_fastas, output_files, unflushed, list_proteins_no_pssm1,
                   list_proteins_no_pssm2, result>>

\* `return output_file`, the last statement of the loop body
Return ==
    /\ pc = "return"
    /\ result' = prot_feat
    /\ pc' = "returned"
    /\ UNCHANGED <<error, method, protein_feature, place_protein_id, fasta_lines,
                   fasta_dict, platform, set_proteins_fasta, pssm_entry, single_entry, fsVars,
                   list_proteins_no_pssm1, list_proteins_no_pssm2, todo, prot_feat, log>>

----------------------------------------------------------------------------
(* Inputs and specifications *)

MaxProteins == 3

MaxExtractProteins == 3

Platforms == {"Linux", "Darwin", "Windows"}

Idle ==
    /\ pc = "entry"
    /\ error = "none"
    /\ fasta_dict = <<>>
    /\ set_proteins_fasta = {}
    /\ pssm_entry = {}
    /\ single_entry = {}
    /\ output_files = <<>>
    /\ unflushed = <<>>
    /\ list_proteins_no_pssm1 = {}
    /\ list_proteins_no_pssm2 = {}
    /\ todo = {}
    /\ prot_feat = "none"
    /\ log = EmptyBag
    /\ result = "none"

\* read_fasta_to_dict on every bounded file
InitFasta ==
    /\ Idle
    /\ method = "POSSUM"
    /\ protein_feature = "aac_pssm"
    /\ place_protein_id \in {0, 1}
    /\ fasta_lines \in FastaFiles
    /\ platform = "Linux"
    /\ pssm_files = {}
    /\ single_fastas = {}
    /\ temp_output = <<>>

NextFasta == ReadFasta

SpecFasta == InitFasta /\ [][NextFasta]_vars

\* find_pssm_missing_proteins on every bounded pair of arguments
MissingDirs ==
    SUBSET {PssmName(IdA), PssmName(IdB), PssmName(IdAB), IdC, <<"c", ".", "x", ".", "y">>}

InitMissing ==
    /\ Idle
    /\ method = "POSSUM"
    /\ protein_feature = "aac_pssm"
    /\ place_protein_id = 1
    /\ fasta_lines = <<>>
    /\ platform = "Linux"
    /\ pssm_files \in MissingDirs
    /\ single_fastas = {}
    /\ temp_output = <<>>

FindMissing ==
    /\ pc = "entry"
    /\ \E ids \in SUBSET (IdSet \cup {IdC}) :
         /\ set_proteins_fasta' = ids
         /\ list_proteins_no_pssm1' = find_pssm_missing_proteins(ids, pssm_files)
    /\ pc' = "found"
    /\ UNCHANGED <<error, method, protein_feature, place_protein_id, fasta_lines,
                   fasta_dict, platform, pssm_entry, single_entry, fsVars, list_proteins_no_pssm2,
                   todo, prot_feat, log, result>>

NextMissing == FindMissing

SpecMissing == InitMissing /\ [][NextMissing]_vars

\* copy_form_pssm_matrices, as extract_POSSUM_feature calls it
AcqFastaFiles == {FastaOfIds(ids) : ids \in SeqsUpTo(IdSet, MaxProteins) \ {<<>>}}

InitAcq ==
    /\ Idle
    /\ method = "POSSUM"
    /\ protein_feature = "aac_pssm"
    /\ place_protein_id = 1
    /\ fasta_lines \in AcqFastaFiles
    /\ platform \in Platforms
    /\ pssm_files \in SUBSET {PssmName(IdA), PssmName(IdB), PssmName(IdAB)}
    /\ single_fastas \in SUBSET {FastaName(IdB)}
    /\ temp_output = <<>>

NextAcq ==
    \/ ReadFasta
    \/ CopyFormEnter
    \/ CopyPssmsStep
    \/ CopyPssmsDone
    \/ Recheck
    \/ FormMissingStep
    \/ FormMissingRmtree

SpecAcq == InitAcq /\ [][NextAcq]_vars

\* one call of extract_POSSUM_feature or extract_iFeature_feature
IdOrder == <<IdA, IdB, IdAB, IdC>>

ExtractFastaFiles ==
    {FastaOfIds(SubSeq(IdOrder, 1, n)) : n \in 1..Min(MaxExtractProteins, Len(IdOrder))}

\* temp_output_folder on entry: empty, or holding the raw file that an earlier
\* call left when its normalizer raised
LeftRaws == {<<>>, "AAC" :> << <<"a", "\t", "1">> \o NL >>}

ProteinFeatures == {"aac_pssm", "all_POSSUM", "AAC", "all_iFeature", "bogus"}

Init ==
    /\ Idle
    /\ method \in {"POSSUM", "iFeature"}
    /\ protein_feature \in ProteinFeatures
    /\ place_protein_id \in {0, 1}
    /\ fasta_lines \in ExtractFastaFiles
    /\ platform \in Platforms
    /\ pssm_files \in {{}, {PssmName(IdA)}, {PssmName(IdA), PssmName(IdB), PssmName(IdAB)}}
    /\ single_fastas = {}
    /\ temp_output \in LeftRaws

Next ==
    \/ ReadFasta
    \/ CopyFormEnter
    \/ CopyPssmsStep
    \/ CopyPssmsDone
    \/ Recheck
    \/ FormMissingStep
    \/ FormMissingRmtree
    \/ POSSUMListDesc
    \/ iFeatureListDesc
    \/ RunTool
    \/ edit_extracted_features_POSSUM
    \/ edit_extracted_features_iFeature
    \/ FinalizeLeaked
    \/ Return

Spec == Init /\ [][Next]_vars

----------------------------------------------------------------------------
(* Properties of find_pssm_missing_proteins *)

\* index of the first '.' of a file name, or one past its end
FirstDot(file) ==
    IF \E i \in 1..Len(file) : file[i] = "."
    THEN CHOOSE i \in 1..Len(file) :
            file[i] = "." /\ \A j \in 1..(i - 1) : file[j] /= "."
    ELSE Len(file) + 1

\* present(dir): what stands before the first '.' of each file name
PresentIds(dir) == {SubSeq(file, 1, FirstDot(file) - 1) : file \in dir}

\* C2: find_pssm_missing_proteins(ids, dir) is exactly ids minus present(dir):
\* all of ids when dir is empty, the empty set when ids is empty.
C2_MissingIsDifference ==
    pc = "found" =>
        /\ list_proteins_no_pssm1 = set_proteins_fasta \ PresentIds(pssm_files)
        /\ pssm_files = {} => list_proteins_no_pssm1 = set_proteins_fasta
        /\ set_proteins_fasta = {} => list_proteins_no_pssm1 = {}

C2_Witness ==
    /\ pc = "found"
    /\ IdAB \in set_proteins_fasta
    /\ PssmName(IdAB) \in pssm_files
    /\ list_proteins_no_pssm1 /= {}
    /\ list_proteins_no_pssm1 /= set_proteins_fasta

----------------------------------------------------------------------------
(* Properties of copy_form_pssm_matrices *)

AfterCopyFormEnter == pc \in {"copy_pssms", "recheck", "form_missing", "acquired"}

\* C3: when every identifier of the parsed FASTA has a matrix file in the
\* matrix directory on entry to copy_form_pssm_matrices (an identifier has
\* one when it is what stands before the first '.' of a file name), the call
\* makes no HTTP request, runs no psiblast and writes no single-sequence file.
C3_NoAcquisitionWhenPresent ==
    (AfterCopyFormEnter /\ KeySet(fasta_dict) \subseteq PresentIds(pssm_entry)) =>
        /\ EventsOf("http_get") = {}
        /\ EventsOf("psiblast") = {}
        /\ EventsOf("write_fastas") = {}
        /\ single_fastas = single_entry
        /\ pssm_files = pssm_entry

C3_Witness ==
    /\ pc = "acquired"
    /\ Len(fasta_dict) >= 2
    /\ KeySet(fasta_dict) \subseteq PresentIds(pssm_entry)
    /\ single_entry /= {}

----------------------------------------------------------------------------
(* Properties of read_fasta_to_dict *)

IsHeader(line) == line[1] = ">"

\* positions of the header lines, in file order
HeaderPositions(lines) ==
    LET P == {i \in 1..Len(lines) : IsHeader(lines[i])}
    IN  [n \in 1..Cardinality(P) |->
            CHOOSE i \in P : Cardinality({j \in P : j < i}) = n - 1]

HeaderFields(line) == Split(Strip(line), "|")

\* the identifier a header line names: the field at index place, without
\* the '>' marker when place is 0
HeaderId(line, place) ==
    LET f == HeaderFields(line)[place + 1]
    IN  IF place = 0 THEN Tail(f) ELSE f

RECURSIVE ConcatTrimmed(_, _, _)
\* the trimmed lines lo..hi of the file, concatenated
ConcatTrimmed(lines, lo, hi) ==
    IF lo > hi THEN <<>> ELSE Strip(lines[lo]) \o ConcatTrimmed(lines, lo + 1, hi)

\* the sequence lines of the n-th record: those after its header, up to the
\* next header or the end of the file
RecordSequence(lines, n) ==
    LET hp == HeaderPositions(lines)
        last == IF n < Len(hp) THEN hp[n + 1] - 1 ELSE Len(lines)
    IN  ConcatTrimmed(lines, hp[n] + 1, last)

HeadersWellFormed(lines, place) ==
    \A i \in 1..Len(lines) :
        IsHeader(lines[i]) => Len(HeaderFields(lines[i])) >= place + 1

HeaderIds(lines, place) ==
    LET hp == HeaderPositions(lines)
    IN  [n \in 1..Len(hp) |-> HeaderId(lines[hp[n]], place)]

HasDuplicateId(lines, place) ==
    LET ids == HeaderIds(lines, place)
    IN  \E m, n \in 1..Len(ids) : m /= n /\ ids[m] = ids[n]

\* a valid FASTA file: it begins with a header, every header has the field
\* asked for and names a non-empty identifier
ValidFasta(lines, place) ==
    /\ lines /= <<>>
    /\ IsHeader(lines[1])
    /\ HeadersWellFormed(lines, place)
    /\ \A n \in 1..Len(HeaderIds(lines, place)) : HeaderIds(lines, place)[n] /= <<>>

Parsed == pc = "copy_form"

\* C4: for a valid FASTA file without duplicate identifiers the mapping has
\* exactly one key per header line, in header order, and each value is the
\* concatenation of the trimmed lines of its record: no line terminator and
\* no header line is part of a value.
C4_ParseValidFasta ==
    (pc /= "entry" /\ ValidFasta(fasta_lines, place_protein_id)
                   /\ ~HasDuplicateId(fasta_lines, place_protein_id)) =>
        /\ Parsed
        /\ Keys(fasta_dict) = HeaderIds(fasta_lines, place_protein_id)
        /\ \A n \in 1..Len(fasta_dict) :
              /\ fasta_dict[n].v = RecordSequence(fasta_lines, n)
              /\ \A i \in 1..Len(fasta_dict[n].v) : fasta_dict[n].v[i] /= "\n"

C4_Witness ==
    /\ Parsed
    /\ ValidFasta(fasta_lines, place_protein_id)
    /\ ~HasDuplicateId(fasta_lines, place_protein_id)
    /\ Len(fasta_dict) = 2
    /\ Len(fasta_lines) = 5
    /\ \A n \in 1..2 : fasta_dict[n].v /= <<>>

\* C5: when an identifier recurs in the headers, the file is rejected, or at
\* least the lines of its first record are kept: the value of the identifier
\* begins with them and holds nothing of another identifier's records.
OwnSequence(lines, place, id) ==
    LET ids == HeaderIds(lines, place)
        own == {n \in 1..Len(ids) : ids[n] = id}
        F[n \in 0..Len(ids)] ==
            IF n = 0 THEN <<>>
            ELSE IF n \in own THEN F[n - 1] \o RecordSequence(lines, n) ELSE F[n - 1]
    IN  F[Len(ids)]

C5_DuplicatesNotLost ==
    (pc /= "entry" /\ ValidFasta(fasta_lines, place_protein_id)
                   /\ HasDuplicateId(fasta_lines, place_protein_id)) =>
        \/ error /= "none"
        \/ \A n \in 1..Len(fasta_dict) :
              fasta_dict[n].v = OwnSequence(fasta_lines, place_protein_id, fasta_dict[n].k)

----------------------------------------------------------------------------
(* Properties of the two acquisition stages *)

HttpCount(prot_id) ==
    Count(Ev("http_get", <<prot_id, "ok">>))
    + Count(Ev("http_get", <<prot_id, "http_error">>))
    + Count(Ev("http_get", <<prot_id, "conn_error">>))

BlastCount(prot_id) == Count(Ev("psiblast", FastaName(prot_id)))

NoLocalRegenerationYet == EventsOf("write_fastas") = {} /\ EventsOf("psiblast") = {}

\* every identifier missing on entry is requested once, whatever the answers
\* to the other requests were, and no other identifier is requested
FetchTriesAll ==
    pc \in {"recheck", "form_missing", "acquired"} =>
        \A prot_id \in KeySet(fasta_dict) :
            HttpCount(prot_id) = IF prot_id \in list_proteins_no_pssm1 THEN 1 ELSE 0

\* a request is only made while nothing of the local stage has happened
FetchBeforeLocal ==
    (\E prot_id \in KeySet(fasta_dict) : HttpCount(prot_id)' > HttpCount(prot_id))
        => NoLocalRegenerationYet'

\* the second list is computed from the directory as the fetch left it, and
\* the single-sequence files are written for that list
RecomputedBetween ==
    (pc = "recheck" /\ pc' /= "recheck") =>
        /\ list_proteins_no_pssm2' = KeySet(fasta_dict) \ PresentIds(pssm_files)
        /\ list_proteins_no_pssm2' /= {} =>
              EventsOf("write_fastas")' = {Ev("write_fastas", list_proteins_no_pssm2')}

\* psiblast ran once for each identifier of the second list and never for
\* an identifier the fetch took off the list
BlastOncePerStillMissing ==
    pc = "acquired" =>
        /\ \A prot_id \in list_proteins_no_pssm2 : BlastCount(prot_id) = 1
        /\ \A prot_id \in list_proteins_no_pssm1 \ list_proteins_no_pssm2 :
              BlastCount(prot_id) = 0

----------------------------------------------------------------------------
(* Properties of one extraction call *)

ToolCount(desc) == Count(Ev("tool", <<desc, 0>>)) + Count(Ev("tool", <<desc, 1>>))

NormalizeCount(desc) == Count(Ev("normalize", desc))

AllMode ==
    \/ method = "POSSUM" /\ protein_feature = "all_POSSUM"
    \/ method = "iFeature" /\ protein_feature = "all_iFeature"

ConcreteDescriptors ==
    IF method = "POSSUM" THEN POSSUM_desc_list \ {"all_POSSUM"}
    ELSE iFeature_desc_list \ {"all_iFeature"}

\* C1: in "all" mode a call that returns has invoked the tool and the
\* normalizer once for every concrete descriptor of the family and has
\* written one output file for each.
C1_AllModeRunsEveryDescriptor ==
    (pc = "returned" /\ AllMode) =>
        \A desc \in ConcreteDescriptors :
            /\ ToolCount(desc) = 1
            /\ NormalizeCount(desc) = 1
            /\ desc \in DOMAIN output_files

\* C6: the PSSM normalizer never leaves an output file with fewer lines than
\* there are proteins: with too few raw lines it fails (MisalignedOutput).
C6_NoTruncatedOutput ==
    method = "POSSUM" =>
        \A desc \in DOMAIN output_files :
            Len(output_files[desc]) >= Len(fasta_dict)

\* C7: the normalizer is not called for a descriptor whose tool exited with
\* a non-zero code.
C7_NoNormalizeAfterFailure ==
    \A desc \in POSSUM_desc_list \cup iFeature_desc_list \cup ProteinFeatures :
        Count(Ev("tool", <<desc, 1>>)) > 0 => NormalizeCount(desc) = 0

\* C8: for a descriptor name of neither vocabulary no subprocess is spawned:
\* no descriptor tool and no psiblast.
C8_UnknownSpawnsNothing ==
    protein_feature \notin POSSUM_desc_list \cup iFeature_desc_list =>
        EventsOf("tool") = {} /\ EventsOf("psiblast") = {}

\* C9: once a normalizer has completed, the raw file is gone and the output
\* file exists; when the call has returned, no raw file is left.
C9_RawRemoved ==
    /\ pc \in {"return", "returned"} =>
          /\ prot_feat \notin DOMAIN temp_output
          /\ prot_feat \in DOMAIN output_files
    /\ pc = "returned" =>
          \A desc \in DOMAIN temp_output : ToolCount(desc) = 0

C9_Witness ==
    /\ pc = "returned"
    /\ method = "iFeature"
    /\ ToolCount(result) = 1
    /\ Len(output_files[result]) >= 1


====
